---- MODULE Spec2Model ----
(***************************************************************************)
(* A model of the XIV template compiler (src/src/compiler.py).             *)
(*                                                                         *)
(* Representation.  A string of markup is a sequence of nodes; a node is   *)
(* an element (tag, attributes, children) or a text node.  Text and        *)
(* attribute values are sequences of tokens (words, the markup characters  *)
(* < > & " ', the entities that escape them, and the placeholder tokens    *)
(* {{ | }}).  A markup string ("html") carries its text in serialized      *)
(* form (entities), a parsed tree ("soup") in decoded form; Parse and      *)
(* Serialize convert between the two.  A dotted path or a fragment name    *)
(* is one token, split into its keys or segments by the tables SplitDot    *)
(* and SplitSep.                                                           *)
(***************************************************************************)
EXTENDS Naturals, Sequences, FiniteSets, TLC

(***************************************************************************)
(* Bounds of the model.                                                    *)
(***************************************************************************)
MaxCompiles == 2

(***************************************************************************)
(* Markup nodes.                                                           *)
(***************************************************************************)
NoAttrs == [a \in {} |-> <<>>]

El(tag, attrs, kids) ==
    [kind |-> "el", tag |-> tag, attrs |-> attrs, kids |-> kids, s |-> <<>>]

Tx(s) ==
    [kind |-> "text", tag |-> "", attrs |-> NoAttrs, kids |-> <<>>, s |-> s]

IsEl(n) == n.kind = "el"

HasAttr(n, a) == IsEl(n) /\ a \in DOMAIN n.attrs

DelAttr_all(n, a) == [n EXCEPT !.attrs = NoAttrs]

\* del element[a]
DelAttr(n, a) ==
    [n EXCEPT !.attrs = [k \in DOMAIN n.attrs \ {a} |-> n.attrs[k]]]

(***************************************************************************)
(* Values of the argument context.                                         *)
(***************************************************************************)
None == [t |-> "none", v |-> <<>>]
VStr(s) == [t |-> "str", v |-> s]
VBool(b) == [t |-> "bool", v |-> b]
VNum(n) == [t |-> "num", v |-> n]
VList(l) == [t |-> "list", v |-> l]
VDict(d) == [t |-> "dict", v |-> d]

EmptyArgs == [k \in {} |-> None]

\* path.split('.') for the dotted paths the templates use
SplitDot(path) ==
    CASE path = "user.name" -> <<"user", "name">>
      [] path = "user.active" -> <<"user", "active">>
      [] path = "user.tags" -> <<"user", "tags">>
      [] path = "title.x" -> <<"title", "x">>
      [] path = "user.name.x" -> <<"user", "name", "x">>
      [] OTHER -> <<path>>

\* XivCompiler._get_value_from_path
RECURSIVE WalkKeys(_, _)
WalkKeys(keys, value) ==
    IF keys = <<>> THEN value
    ELSE IF value.t = "dict"
         THEN LET nxt == IF Head(keys) \in DOMAIN value.v
                         THEN value.v[Head(keys)] ELSE None
              IN IF nxt.t = "none" THEN None ELSE WalkKeys(Tail(keys), nxt)
         ELSE None

get_value_from_path(path, data) == WalkKeys(SplitDot(path), VDict(data))

\* str(value)
PyStr(value) ==
    CASE value.t = "str" -> value.v
      [] value.t = "bool" -> IF value.v THEN <<"True">> ELSE <<"False">>
      [] value.t = "num" -> <<ToString(value.v)>>
      [] value.t = "list" -> <<"[list]">>
      [] value.t = "dict" -> <<"{dict}">>
      [] OTHER -> <<"None">>

\* str.lower() on one token
LowerTok(tok) ==
    CASE tok \in {"False", "FALSE", "false"} -> "false"
      [] tok \in {"True", "TRUE", "true"} -> "true"
      [] tok = "Hello" -> "hello"
      [] OTHER -> tok

\* str(value).lower() in ["false", "0", ""]
LowerIsFalsy(s) ==
    \/ s = <<>>
    \/ Len(s) = 1 /\ LowerTok(s[1]) \in {"false", "0"}

evaluate_condition_missing_not(condition_str, args) ==
    LET value == IF Len(condition_str) = 1
                 THEN get_value_from_path(condition_str[1], args) ELSE None
    IN CASE value.t = "none" -> FALSE
         [] value.t = "bool" -> value.v
         [] LowerIsFalsy(PyStr(value)) -> FALSE
         [] OTHER -> TRUE

\* XivCompiler._evaluate_condition; the expression is its whitespace-separated
\* tokens, so startswith('not ') is a first token "not"
evaluate_condition(condition_str, args) ==
    LET is_negated == Len(condition_str) >= 1 /\ Head(condition_str) = "not"
        var_name == IF is_negated THEN Tail(condition_str) ELSE condition_str
        truth(value) == CASE value.t = "none" -> FALSE
                          [] value.t = "bool" -> value.v
                          [] LowerIsFalsy(PyStr(value)) -> FALSE
                          [] OTHER -> TRUE
        negate(is_true) == IF is_negated THEN ~is_true ELSE is_true
    IN negate(truth(IF Len(var_name) = 1
                    THEN get_value_from_path(var_name[1], args) ELSE None))

(***************************************************************************)
(* Text: escaping, entity decoding, serialization and parsing.             *)
(***************************************************************************)
MapSeq(s, Op(_)) == [i \in 1..Len(s) |-> Op(s[i])]

html_escape_none(tok) == tok

\* html.escape(s, quote=True), one token at a time
html_escape(tok) ==
    CASE tok = "&" -> "&amp;"
      [] tok = "<" -> "&lt;"
      [] tok = ">" -> "&gt;"
      [] tok = "\"" -> "&quot;"
      [] tok = "'" -> "&#x27;"
      [] tok = "&amp;" -> "&amp;amp;"
      [] tok = "&lt;" -> "&amp;lt;"
      [] tok = "&gt;" -> "&amp;gt;"
      [] OTHER -> tok

\* the serializer's escaping of text and attribute values (str(soup))
FormatTok(tok) ==
    CASE tok = "&" -> "&amp;"
      [] tok = "<" -> "&lt;"
      [] tok = ">" -> "&gt;"
      [] tok = "&amp;" -> "&amp;amp;"
      [] tok = "&lt;" -> "&amp;lt;"
      [] tok = "&gt;" -> "&amp;gt;"
      [] OTHER -> tok

\* the parser's decoding of one entity
DecodeTok(tok) ==
    CASE tok = "&amp;" -> "&"
      [] tok = "&lt;" -> "<"
      [] tok = "&gt;" -> ">"
      [] tok = "&quot;" -> "\""
      [] tok = "&#x27;" -> "'"
      [] tok = "&amp;amp;" -> "&amp;"
      [] tok = "&amp;lt;" -> "&lt;"
      [] tok = "&amp;gt;" -> "&gt;"
      [] OTHER -> tok

\* the least index >= i of s holding a token of toks, 0 if there is none
RECURSIVE IndexFrom(_, _, _)
IndexFrom(s, i, toks) ==
    IF i > Len(s) THEN 0
    ELSE IF s[i] \in toks THEN i ELSE IndexFrom(s, i + 1, toks)

\* BeautifulSoup(text, 'lxml') on a run of character data: entities are
\* decoded; a raw "<" ... ">" in it is markup and opens an element
RECURSIVE ParseText(_)
ParseText(s) ==
    IF s = <<>> THEN <<>>
    ELSE LET i == IndexFrom(s, 1, {"<"})
             j == IF i = 0 THEN 0 ELSE IndexFrom(s, i + 1, {">"})
         IN IF j = 0 THEN <<Tx(MapSeq(s, DecodeTok))>>
            ELSE (IF i = 1 THEN <<>>
                  ELSE <<Tx(MapSeq(SubSeq(s, 1, i - 1), DecodeTok))>>)
                 \o (IF j = i + 1 \/ s[i + 1] = "/" THEN <<>>
                     ELSE <<El(s[i + 1], NoAttrs, <<>>)>>)
                 \o ParseText(SubSeq(s, j + 1, Len(s)))

\* BeautifulSoup(html, 'lxml'): the contents of the parsed body; adjacent
\* runs of character data are one text node
RECURSIVE Parse(_)
Parse(html) ==
    IF html = <<>> THEN <<>>
    ELSE LET n == Head(html) IN
         IF ~IsEl(n) /\ Len(html) >= 2 /\ ~IsEl(html[2])
         THEN Parse(<<Tx(n.s \o html[2].s)>> \o SubSeq(html, 3, Len(html)))
         ELSE
         (IF IsEl(n)
          THEN <<El(n.tag,
                    [a \in DOMAIN n.attrs |-> MapSeq(n.attrs[a], DecodeTok)],
                    Parse(n.kids))>>
          ELSE ParseText(n.s))
         \o Parse(Tail(html))

\* str(soup)
RECURSIVE Serialize(_)
Serialize(soup) ==
    IF soup = <<>> THEN <<>>
    ELSE LET n == Head(soup) IN
         <<IF IsEl(n)
           THEN El(n.tag,
                   [a \in DOMAIN n.attrs |-> MapSeq(n.attrs[a], FormatTok)],
                   Serialize(n.kids))
           ELSE Tx(MapSeq(n.s, FormatTok))>>
         \o Serialize(Tail(soup))

(***************************************************************************)
(* Pass 4: placeholder substitution.                                       *)
(***************************************************************************)
replacer_default_first(key, default_value, args) ==
    LET value == IF Len(key) = 1 THEN get_value_from_path(key[1], args)
                 ELSE None
    IN IF default_value # <<>> \/ value.t = "none"
       THEN MapSeq(default_value, html_escape)
       ELSE MapSeq(PyStr(value), html_escape)

\* replacer: key and default_value are the tokens of m.group(1) and
\* m.group(2), stripped
replacer(key, default_value, args) ==
    LET value == IF Len(key) = 1 THEN get_value_from_path(key[1], args)
                 ELSE None
    IN IF value.t # "none"
       THEN MapSeq(PyStr(value), html_escape)
       ELSE MapSeq(default_value, html_escape)

\* re.sub(r'{{\s*([^}|]+?)\s*(?:\|([^}]*))?}}', replacer, text) on the tokens
\* of one run of text
RECURSIVE SubstituteText(_, _)
SubstituteText(s, args) ==
    IF s = <<>> THEN <<>>
    ELSE IF Head(s) # "{{" THEN <<Head(s)>> \o SubstituteText(Tail(s), args)
    ELSE LET j == IndexFrom(s, 2, {"|", "}}"})
             k == IF j # 0 /\ s[j] = "|" THEN IndexFrom(s, j + 1, {"}}"})
                  ELSE j
         IN IF j <= 2 \/ k = 0
            THEN <<Head(s)>> \o SubstituteText(Tail(s), args)
            ELSE replacer(SubSeq(s, 2, j - 1),
                          IF k = j THEN <<>> ELSE SubSeq(s, j + 1, k - 1),
                          args)
                 \o SubstituteText(SubSeq(s, k + 1, Len(s)), args)

\* the substitution over a whole serialized tree: its text and its attribute
\* values
RECURSIVE Substitute(_, _)
Substitute(html, args) ==
    IF html = <<>> THEN <<>>
    ELSE LET n == Head(html) IN
         <<IF IsEl(n)
           THEN El(n.tag,
                   [a \in DOMAIN n.attrs |-> SubstituteText(n.attrs[a], args)],
                   Substitute(n.kids, args))
           ELSE Tx(SubstituteText(n.s, args))>>
         \o Substitute(Tail(html), args)

(***************************************************************************)
(* Paths and the template store.                                           *)
(***************************************************************************)
\* the template root, normalized (templates_dir), as its segments; "/" is
\* the root of the file system
TemplatesDir == <<"/", "r", "t">>

\* f"{template_name}.xiv" split at the separator
SplitSep(name) ==
    CASE name = "../secret" -> <<"..", "secret.xiv">>
      [] name = "../t2/a" -> <<"..", "t2", "a.xiv">>
      [] name = "../t/card" -> <<"..", "t", "card.xiv">>
      [] name = "./card" -> <<".", "card.xiv">>
      [] name = "sub/../b" -> <<"sub", "..", "b.xiv">>
      [] name = "/r/secret" -> <<"/", "r", "secret.xiv">>
      [] name = "a" -> <<"a.xiv">>
      [] name = "b" -> <<"b.xiv">>
      [] name = "c" -> <<"c.xiv">>
      [] name = "d" -> <<"d.xiv">>
      [] name = "p" -> <<"p.xiv">>
      [] name = "q" -> <<"q.xiv">>
      [] name = "self" -> <<"self.xiv">>
      [] name = "slotcyc" -> <<"slotcyc.xiv">>
      [] name = "wrap" -> <<"wrap.xiv">>
      [] name = "box" -> <<"box.xiv">>
      [] name = "card" -> <<"card.xiv">>
      [] name = "iso" -> <<"iso.xiv">>
      [] name = "outer" -> <<"outer.xiv">>
      [] name = "bad" -> <<"bad.xiv">>
      [] name = "maybe" -> <<"maybe.xiv">>
      [] name = "loop" -> <<"loop.xiv">>
      [] name = "badloop" -> <<"badloop.xiv">>
      [] name = "cond" -> <<"cond.xiv">>
      [] name = "nestif" -> <<"nestif.xiv">>
      [] name = "users" -> <<"users.xiv">>
      [] name = "ph" -> <<"ph.xiv">>
      [] name = "evil" -> <<"evil.xiv">>
      [] name = "nomarker" -> <<"nomarker.xiv">>
      [] name = "dir" -> <<"dir.xiv">>
      [] name = "guardon" -> <<"guardon.xiv">>
      [] name = "guardbetween" -> <<"guardbetween.xiv">>
      [] name = "tags" -> <<"tags.xiv">>
      [] name = "flags" -> <<"flags.xiv">>
      [] name = "shadow" -> <<"shadow.xiv">>
      [] name = "relay" -> <<"relay.xiv">>
      [] name = "nestloop" -> <<"nestloop.xiv">>
      [] name = "nestbad" -> <<"nestbad.xiv">>
      [] name = "nofile" -> <<"nofile.xiv">>
      [] OTHER -> <<name>>

\* os.path.join(templates_dir, name): an absolute name replaces the root
join(dir, segs) ==
    IF segs # <<>> /\ Head(segs) = "/" THEN segs ELSE dir \o segs

\* os.path.normpath on the segments: "." is dropped, ".." removes the
\* segment before it (and is dropped at the root of the file system)
RECURSIVE NormInto(_, _)
NormInto(done, todo) ==
    IF todo = <<>> THEN done
    ELSE LET seg == Head(todo) IN
         IF seg = "." THEN NormInto(done, Tail(todo))
         ELSE IF seg = ".."
              THEN IF done # <<>> /\ done[Len(done)] \notin {"/", ".."}
                   THEN NormInto(SubSeq(done, 1, Len(done) - 1), Tail(todo))
                   ELSE IF done # <<>> /\ done[Len(done)] = "/"
                        THEN NormInto(done, Tail(todo))
                        ELSE NormInto(Append(done, seg), Tail(todo))
              ELSE NormInto(Append(done, seg), Tail(todo))

normpath(segs) == NormInto(<<>>, segs)

\* one segment is a textual prefix of another
TextPrefix(a, b) == a = b \/ (a = "t" /\ b = "t2")

starts_with_dir_no_sep(path, dir) ==
    /\ Len(path) >= Len(dir)
    /\ SubSeq(path, 1, Len(dir) - 1) = SubSeq(dir, 1, Len(dir) - 1)
    /\ TextPrefix(dir[Len(dir)], path[Len(dir)])

\* path.startswith(templates_dir + os.sep)
starts_with_dir(path, dir) ==
    Len(path) > Len(dir) /\ SubSeq(path, 1, Len(dir)) = dir

\* the containment check of _process_content on the resolved path
in_templates_dir(path) ==
    starts_with_dir(path, TemplatesDir) \/ path = TemplatesDir

resolve_unnormalized(name) == join(TemplatesDir, SplitSep(name))

\* the resolved path of a fragment name:
\* os.path.normpath(os.path.join(templates_dir, f"{template_name}.xiv"))
resolve(name) == normpath(join(TemplatesDir, SplitSep(name)))

(***************************************************************************)
(* The iteration source.                                                   *)
(***************************************************************************)
\* the value one item of an encoded list decodes to
JsonItem(tok) ==
    CASE tok = "{alice}" ->
            VDict([name |-> VStr(<<"Alice">>), active |-> VBool(TRUE),
                   tags |-> VList(<<VStr(<<"x">>), VStr(<<"y">>)>>)])
      [] tok = "{bob}" ->
            VDict([name |-> VStr(<<"Bob">>), active |-> VBool(FALSE),
                   tags |-> VDict([k |-> VStr(<<"v">>)])])
      [] tok = "true" -> VBool(TRUE)
      [] tok = "false" -> VBool(FALSE)
      [] tok = "0" -> VNum(0)
      [] tok = "30" -> VNum(30)
      [] tok = "[]" -> VList(<<>>)
      [] tok = "<b>" -> VStr(<<"<", "b", ">">>)
      [] tok = "{{secret}}" -> VStr(<<"{{", "secret", "}}">>)
      [] OTHER -> VStr(<<tok>>)

\* json.loads(text): ok is FALSE for json.JSONDecodeError.  A list is the
\* tokens "[" item ... item "]"; a scalar is one token
json_loads(s) ==
    IF Len(s) >= 2 /\ s[1] = "[" /\ s[Len(s)] = "]"
    THEN [ok |-> TRUE,
          value |-> VList([i \in 1..(Len(s) - 2) |-> JsonItem(s[i + 1])])]
    ELSE IF Len(s) = 1 /\ s[1] \in {"true", "false", "0", "30", "{alice}"}
         THEN [ok |-> TRUE, value |-> JsonItem(s[1])]
         ELSE [ok |-> FALSE, value |-> None]

\* tokens that are not \w+ and not [\w.]+
NonWordToks == {"a-b", "{{", "}}", "|", "<", ">", "&", "[", "]"}

\* re.match(r'^\s*(\w+)\s+in\s+([\w.]+)\s*$', loop_expr)
LoopExprMatches(loop_expr) ==
    /\ Len(loop_expr) = 3
    /\ loop_expr[2] = "in"
    /\ loop_expr[1] \notin NonWordToks
    /\ SplitDot(loop_expr[1]) = <<loop_expr[1]>>
    /\ loop_expr[3] \notin NonWordToks

(***************************************************************************)
(* The world a compilation runs in and changes: the error raised (if any)  *)
(* and the fragment it was raised in, self._visited_templates_stack, and   *)
(* a record of what the run did (files tested with isfile, files opened,   *)
(* the context every fragment body was processed with), and chain, the     *)
(* fragments whose bodies the calls of _process_content in progress are    *)
(* expanding, outermost first (after an error: where it was raised), and   *)
(* recs, the sizes of the inputs of the recursions for slot content and    *)
(* loop bodies.                                                            *)
(***************************************************************************)
NoError == "none"

\* raise CompilerError(..., current_template_context_path), and the one
\* raise FileNotFoundError
Raise(w, e, label) ==
    [w EXCEPT !.err = e, !.at = label, !.raised = Append(@, e)]

MainLabel == <<"main.xiv">>

\* the argument attributes: attr.startswith('t-'), and key = attr[2:]
ArgAttrs ==
    {"t-title", "t-content", "t-items", "t-show", "t-secret", "t-users",
     "t-item", "t-name"}

ArgKey(attr) ==
    CASE attr = "t-title" -> "title"
      [] attr = "t-content" -> "content"
      [] attr = "t-items" -> "items"
      [] attr = "t-show" -> "show"
      [] attr = "t-secret" -> "secret"
      [] attr = "t-users" -> "users"
      [] attr = "t-item" -> "item"
      [] attr = "t-name" -> "name"
      [] OTHER -> attr

new_args_inherited(attrs, args) ==
    [k \in {ArgKey(a) : a \in DOMAIN attrs \cap ArgAttrs} \cup DOMAIN args |->
        IF \E a \in DOMAIN attrs \cap ArgAttrs : ArgKey(a) = k
        THEN VStr(attrs[CHOOSE a \in DOMAIN attrs \cap ArgAttrs : ArgKey(a) = k])
        ELSE args[k]]

\* new_args: the t- attributes of the inclusion element, prefix stripped,
\* each value as text; args is the caller's context
new_args_of(attrs, args) ==
    [k \in {ArgKey(a) : a \in DOMAIN attrs \cap ArgAttrs} |->
        VStr(attrs[CHOOSE a \in DOMAIN attrs \cap ArgAttrs : ArgKey(a) = k])]

\* re.sub(r'[^\w-]', '', template_name)
SafeName(name) ==
    CASE name = "../secret" -> "secret"
      [] name = "../t2/a" -> "t2a"
      [] name = "../t/card" -> "tcard"
      [] name = "./card" -> "card"
      [] name = "sub/../b" -> "subb"
      [] name = "/r/secret" -> "rsecret"
      [] OTHER -> name

\* re.search(r'<xiv type="template">(.*?)</xiv>', raw, re.DOTALL): the inner
\* content of the fragment marker, or the whole file without one
ExtractBody(raw) ==
    IF /\ Len(raw) = 1
       /\ IsEl(raw[1])
       /\ raw[1].tag = "xiv"
       /\ "type" \in DOMAIN raw[1].attrs
       /\ raw[1].attrs["type"] = <<"template">>
    THEN raw[1].kids
    ELSE raw

\* some element of the tree carries the attribute
RECURSIVE ContainsAttr(_, _)
ContainsAttr(nodes, a) ==
    /\ nodes # <<>>
    /\ \/ HasAttr(Head(nodes), a)
       \/ ContainsAttr(Head(nodes).kids, a)
       \/ ContainsAttr(Tail(nodes), a)

\* some element of the tree has the tag
RECURSIVE ContainsTag(_, _)
ContainsTag(nodes, tag) ==
    /\ nodes # <<>>
    /\ \/ IsEl(Head(nodes)) /\ Head(nodes).tag = tag
       \/ ContainsTag(Head(nodes).kids, tag)
       \/ ContainsTag(Tail(nodes), tag)

\* slot_tag = template_soup.find('x-slot'); slot_tag.replace_with(*contents):
\* the first x-slot element in document order is replaced
RECURSIVE ReplaceFirstSlot(_, _)
ReplaceFirstSlot(nodes, contents) ==
    IF nodes = <<>> THEN <<>>
    ELSE LET n == Head(nodes) IN
         IF IsEl(n) /\ n.tag = "x-slot" THEN contents \o Tail(nodes)
         ELSE IF ContainsTag(n.kids, "x-slot")
              THEN <<[n EXCEPT !.kids = ReplaceFirstSlot(n.kids, contents)]>>
                   \o Tail(nodes)
              ELSE <<n>> \o ReplaceFirstSlot(Tail(nodes), contents)

(***************************************************************************)
(* The template store: the files of the file system, by normalized path.   *)
(***************************************************************************)
Attr(a, v) == a :> v

Frag(body) == <<El("xiv", Attr("type", <<"template">>), body)>>

Inc(name) == El("x-temp", Attr("x-name", <<name>>), <<>>)

Ph(path) == Tx(<<"{{", path, "}}">>)

PhDef(path, default) == Tx(<<"{{", path, "|", default, "}}">>)

File(raw) == [kind |-> "file", raw |-> raw]

Dir == [kind |-> "dir", raw |-> <<>>]

InRoot(file) == TemplatesDir \o <<file>>

Store ==
    (InRoot("a.xiv") :> File(Frag(<<Tx(<<"A">>), Inc("b")>>)))
 @@ (InRoot("b.xiv") :> File(Frag(<<Tx(<<"B">>), Inc("c")>>)))
 @@ (InRoot("c.xiv") :> File(Frag(<<Tx(<<"C">>), Inc("a")>>)))
 @@ (InRoot("d.xiv") :> File(Frag(<<Tx(<<"D">>), Inc("a")>>)))
 @@ (InRoot("p.xiv") :> File(Frag(<<Inc("q")>>)))
 @@ (InRoot("q.xiv") :> File(Frag(<<Inc("p")>>)))
 @@ (InRoot("self.xiv") :> File(Frag(<<Inc("self")>>)))
 @@ (InRoot("slotcyc.xiv") :>
        File(Frag(<<El("x-temp", Attr("x-name", <<"wrap">>),
                       <<Inc("slotcyc")>>)>>)))
 @@ (InRoot("wrap.xiv") :>
        File(Frag(<<El("div", Attr("class", <<"wrapper">>),
                       <<Tx(<<"W">>), PhDef("secret", "wrapdefault"),
                         El("x-slot", NoAttrs, <<>>)>>)>>)))
 @@ (InRoot("box.xiv") :>
        File(Frag(<<El("div", NoAttrs, <<El("x-slot", NoAttrs, <<>>)>>)>>)))
 @@ (InRoot("card.xiv") :>
        File(Frag(<<El("h2", NoAttrs, <<Ph("title")>>),
                    El("p", NoAttrs, <<PhDef("content", "none")>>)>>)))
 @@ (InRoot("iso.xiv") :>
        File(Frag(<<El("i", NoAttrs, <<PhDef("secret", "hidden")>>),
                    El("i", NoAttrs, <<PhDef("item", "noitem")>>),
                    El("b", Attr("x-if", <<"secret">>), <<Tx(<<"leakif">>)>>),
                    El("u", Attr("x-for", <<"s", "in", "items">>),
                       <<Tx(<<"leakfor">>)>>)>>)))
 @@ (InRoot("outer.xiv") :>
        File(Frag(<<El("div", Attr("x-for", <<"item", "in", "items">>),
                       <<Ph("item"), Inc("iso")>>),
                    El("x-temp", Attr("x-name", <<"wrap">>),
                       <<El("em", NoAttrs,
                            <<PhDef("secret", "nosecret")>>)>>)>>)))
 @@ (InRoot("bad.xiv") :> File(Frag(<<Tx(<<"X">>), Inc("nofile")>>)))
 @@ (InRoot("maybe.xiv") :>
        File(Frag(<<Tx(<<"M">>),
                    El("x-temp",
                       Attr("x-if", <<"show">>) @@ Attr("x-name", <<"nofile">>),
                       <<>>)>>)))
 @@ (InRoot("loop.xiv") :>
        File(Frag(<<El("p", NoAttrs, <<Tx(<<"Header">>)>>),
                    El("li", Attr("x-for", <<"item", "in", "items">>),
                       <<Ph("item")>>),
                    El("p", NoAttrs, <<Tx(<<"Footer">>)>>)>>)))
 @@ (InRoot("badloop.xiv") :>
        File(Frag(<<El("li", Attr("x-for", <<"item", "items">>),
                       <<Ph("item")>>)>>)))
 @@ (InRoot("cond.xiv") :>
        File(Frag(<<El("div", Attr("x-if", <<"show">>),
                       <<Tx(<<"shown">>),
                         El("span", NoAttrs, <<Tx(<<"inner">>)>>)>>),
                    El("p", Attr("x-if", <<"not", "show">>),
                       <<Tx(<<"notshown">>)>>)>>)))
 @@ (InRoot("nestif.xiv") :>
        File(Frag(<<El("div", Attr("x-if", <<"show">>),
                       <<El("span", Attr("x-if", <<"show">>),
                            <<Tx(<<"deep">>)>>)>>),
                    Tx(<<"N">>)>>)))
 @@ (InRoot("users.xiv") :>
        File(Frag(<<El("div", Attr("x-for", <<"user", "in", "users">>),
                       <<El("p", NoAttrs, <<Ph("user.name")>>),
                         El("q", Attr("x-if", <<"user.active">>),
                            <<Tx(<<"Active">>)>>),
                         El("s", Attr("x-if", <<"not", "user.active">>),
                            <<Tx(<<"Inactive">>)>>)>>)>>)))
 @@ (InRoot("ph.xiv") :>
        File(Frag(<<El("h2", NoAttrs, <<Ph("title")>>),
                    El("p", NoAttrs, <<PhDef("title", "Guest")>>),
                    El("i", NoAttrs, <<PhDef("title.x", "deep")>>),
                    El("a", Attr("href", <<"{{", "title", "}}">>), <<>>),
                    El("em", NoAttrs,
                       <<Tx(<<"{{", "title", "|", "R", "&", "D", "}}">>)>>)>>)))
 @@ (InRoot("guardon.xiv") :>
        File(Frag(<<El("div",
                       Attr("x-if", <<"show">>)
                       @@ Attr("x-for", <<"item", "in", "items">>),
                       <<Inc("nofile")>>),
                    Tx(<<"G">>)>>)))
 @@ (InRoot("guardbetween.xiv") :>
        File(Frag(<<El("div", Attr("x-if", <<"show">>),
                       <<El("p", Attr("x-for", <<"item", "in", "items">>),
                            <<Inc("nofile")>>)>>),
                    Tx(<<"G">>)>>)))
 @@ (InRoot("tags.xiv") :>
        File(Frag(<<El("div", Attr("x-for", <<"user", "in", "users">>),
                       <<El("p", NoAttrs, <<Ph("user.name")>>),
                         El("b", Attr("x-for", <<"t", "in", "user.tags">>),
                            <<Ph("t")>>)>>)>>)))
 @@ (InRoot("flags.xiv") :>
        File(Frag(<<El("div", Attr("x-for", <<"user", "in", "users">>),
                       <<El("p", NoAttrs, <<Ph("user.name")>>),
                         El("b", Attr("x-for", <<"t", "in", "user.active">>),
                            <<Ph("t")>>)>>)>>)))
 @@ (InRoot("shadow.xiv") :>
        File(Frag(<<El("i", NoAttrs, <<PhDef("item", "none")>>),
                    El("li", Attr("x-for", <<"item", "in", "items">>),
                       <<Ph("item"), El("u", NoAttrs, <<Ph("title")>>)>>),
                    El("b", NoAttrs, <<PhDef("item", "none")>>)>>)))
 @@ (InRoot("relay.xiv") :>
        File(Frag(<<El("x-temp",
                       Attr("x-name", <<"card">>)
                       @@ Attr("t-title", <<"{{", "secret", "}}">>),
                       <<>>)>>)))
 @@ (InRoot("nestloop.xiv") :>
        File(Frag(<<El("div", Attr("x-for", <<"user", "in", "users">>),
                       <<El("b", Attr("x-for", <<"t", "in", "items">>),
                            <<Inc("card")>>)>>),
                    Tx(<<"L">>)>>)))
 @@ (InRoot("nestbad.xiv") :>
        File(Frag(<<El("div", Attr("x-for", <<"user", "in", "users">>),
                       <<El("b", Attr("x-for", <<"t", "tags">>),
                            <<Ph("t")>>)>>),
                    Tx(<<"L">>)>>)))
 @@ (InRoot("evil.xiv") :> File(Frag(<<Inc("../secret")>>)))
 @@ (InRoot("nomarker.xiv") :> File(<<El("p", NoAttrs, <<Ph("title")>>)>>))
 @@ (InRoot("dir.xiv") :> Dir)
 @@ (<<"/", "r", "secret.xiv">> :> File(<<Tx(<<"SECRET">>)>>))
 @@ (<<"/", "r", "t2", "a.xiv">> :> File(<<Tx(<<"OTHER">>)>>))

\* the entry of the file system at a normalized path
FileAt(store, path) ==
    IF path \in DOMAIN store THEN store[path] ELSE [kind |-> "none", raw |-> <<>>]

\* os.path.isfile(path): the file system resolves the path's segments
isfile(path) == FileAt(Store, normpath(path)).kind = "file"

\* open(path).read()
read(path) == FileAt(Store, normpath(path)).raw

(***************************************************************************)
(* XivCompiler._process_content.  The three directive passes walk the tree *)
(* in document order, which is the order of the list find_all returns; an  *)
(* element of that list that lies inside an element replaced earlier in    *)
(* the same pass is still processed, in the detached subtree.  (The        *)
(* removal of <!--xiv-comment--> on line 116 is not modelled: the trees    *)
(* hold no comments.)                                                      *)
(***************************************************************************)
RECURSIVE process_content(_, _, _, _)
RECURSIVE ForPass(_, _, _, _)
RECURSIVE ForItems(_, _, _, _, _, _)
RECURSIVE TempPass(_, _, _, _)
RECURSIVE temp_element(_, _, _, _)

\* the size of a tree as input of _process_content: its nodes and its
\* iteration directives
RECURSIVE Measure(_)
Measure(nodes) ==
    IF nodes = <<>> THEN 0
    ELSE 1 + (IF HasAttr(Head(nodes), "x-for") THEN 1 ELSE 0)
           + Measure(Head(nodes).kids) + Measure(Tail(nodes))

\* a recursion of _process_content on a part of the tree of the level:
\* the size of what it is taken from and of what is passed
Recursing(w, kind, from, to) ==
    [w EXCEPT !.recs = Append(@, [kind |-> kind, from |-> Measure(from),
                                  to |-> Measure(to)])]

\* the elements a pass has produced so far, followed by those of the rest of
\* its list
Then(h, t) == [nodes |-> h.nodes \o t.nodes, w |-> t.w]

loop_args_unbound(item_var, item_data, args) == args

loop_args_not_shadowing(item_var, item_data, args) ==
    args @@ (item_var :> item_data)

\* lines 153-154: loop_args = copy.deepcopy(args); loop_args[item_var] = item
loop_args_of(item_var, item_data, args) == (item_var :> item_data) @@ args

\* lines 151-159: one recursion per item, the outputs in item order
ForItems(items, element, item_var, label, args, w) ==
    IF items = <<>> \/ w.err # NoError THEN [nodes |-> <<>>, w |-> w]
    ELSE LET generated(r) == [nodes |-> Parse(r.html), w |-> r.w]
             rest(r) == ForItems(Tail(items), element, item_var, label, args,
                                 r.w)
             each(r) == Then(generated(r), rest(r))
         IN each(process_content(Serialize(<<element>>), label,
                                 loop_args_of(item_var, Head(items), args), w))

\* lines 124-161 for one element of the list: the generated elements
for_element(n, label, args, w) ==
    LET loop_expr == n.attrs["x-for"]
        \* lines 151-159 on the element as line 125 has left it
        iterate(items, element) ==
            ForItems(items, element, loop_expr[1], label, args,
                     IF items = <<>> THEN w
                     ELSE Recursing(w, "loop", <<n>>, <<element>>))
        items_of(source, decoded) ==
            CASE source.t = "none" -> VList(<<>>)
              [] source.t = "str" -> decoded.value
              [] OTHER -> source
        expand(source, decoded, items_data) ==
            IF \/ source.t = "str" /\ ~decoded.ok
               \/ source.t \notin {"none", "str", "list"}
               \/ items_data.t # "list"
            THEN [nodes |-> <<>>,
                  w |-> Raise(w, "InvalidIterationSource", label)]
            ELSE iterate(items_data.v, DelAttr(n, "x-for"))
        decode(source, decoded) ==
            expand(source, decoded, items_of(source, decoded))
        lookup(source) == decode(source, json_loads(source.v))
    IN IF ~LoopExprMatches(loop_expr)
       THEN [nodes |-> <<>>, w |-> Raise(w, "InvalidLoopExpression", label)]
       ELSE lookup(get_value_from_path(loop_expr[3], args))

\* pass 1 (lines 123-161)
ForPass(nodes, label, args, w) ==
    IF nodes = <<>> \/ w.err # NoError THEN [nodes |-> <<>>, w |-> w]
    ELSE LET n == Head(nodes)
             \* the later elements of the list inside a replaced n
             replaced(e) ==
                 [nodes |-> e.nodes, w |-> ForPass(n.kids, label, args, e.w).w]
             kept(k) == [nodes |-> <<[n EXCEPT !.kids = k.nodes]>>, w |-> k.w]
             rest(h) == Then(h, ForPass(Tail(nodes), label, args, h.w))
         IN rest(IF ~IsEl(n) THEN [nodes |-> <<n>>, w |-> w]
                 ELSE IF HasAttr(n, "x-for")
                 THEN replaced(for_element(n, label, args, w))
                 ELSE kept(ForPass(n.kids, label, args, w)))

\* pass 2 (lines 164-169).  An element of the list inside a decomposed
\* element is a destroyed object: reading its attribute raises or yields
\* nothing, as the tree library decides (w.lib)
RECURSIVE IfPass(_, _, _, _)
IfPass(nodes, label, args, w) ==
    IF nodes = <<>> \/ w.err # NoError THEN [nodes |-> <<>>, w |-> w]
    ELSE LET n == Head(nodes)
             kept(k) ==
                 [nodes |-> <<[DelAttr(n, "x-if") EXCEPT !.kids = k.nodes]>>,
                  w |-> k.w]
             rest(h) == Then(h, IfPass(Tail(nodes), label, args, h.w))
         IN rest(IF ~IsEl(n) THEN [nodes |-> <<n>>, w |-> w]
                 ELSE IF HasAttr(n, "x-if")
                         /\ ~evaluate_condition(n.attrs["x-if"], args)
                 THEN [nodes |-> <<>>,
                       w |-> IF ContainsAttr(n.kids, "x-if")
                                /\ w.lib = "raise"
                             THEN Raise(w, "DestroyedElement", label)
                             ELSE w]
                 ELSE kept(IfPass(n.kids, label, args, w)))

cycle_skipped(match, label, w) == [nodes |-> <<match>>, w |-> w]

\* lines 185-186: the reference is to a fragment being expanded
cycle_found(match, label, w) ==
    [nodes |-> <<>>, w |-> Raise(w, "CircularReference", label)]

not_found_skipped(match, label, w) == [nodes |-> <<match>>, w |-> w]

\* lines 191-192: the resolved path is no regular file
not_found(match, label, w) ==
    [nodes |-> <<>>, w |-> Raise(w, "FragmentNotFound", label)]

\* line 213: self._visited_templates_stack.add(path)
stack_add(stack, path) == stack \cup {path}

stack_remove_skipped(stack, path) == stack

\* line 215: self._visited_templates_stack.remove(path)
stack_remove(stack, path) == stack \ {path}

slot_args_of_fragment(args, attrs) == new_args_of(attrs, args)

\* line 176: the slot content is processed with args, the context of the
\* level the inclusion element is in
slot_args(args, attrs) == args

\* lines 175-233 for one x-temp element of the list: the wrapper that
\* replaces it.  slot is the processed slot content (line 176), path the
\* resolved path (line 183), ws the world after os.path.isfile (line 191),
\* nested the processed fragment body (line 214)
temp_element(match, label, args, w) ==
    LET has_name == "x-name" \in DOMAIN match.attrs
                    /\ match.attrs["x-name"] # <<>>
        template_name == match.attrs["x-name"][1]
        \* lines 217-229
        replacement_div(slot, nested) ==
            El("div", Attr("class", <<"x-", SafeName(template_name)>>),
               Parse(Serialize(ReplaceFirstSlot(Parse(nested.html),
                                                Parse(slot.html)))))
        \* line 215, reached only when line 214 returned; entry is the stack
        \* before line 213
        returned(slot, nested, path, entry) ==
            IF nested.w.err # NoError THEN [nodes |-> <<>>, w |-> nested.w]
            ELSE [nodes |-> <<replacement_div(slot, nested)>>,
                  w |-> [nested.w EXCEPT
                            !.stack = stack_remove(@, path),
                            !.chain = SubSeq(@, 1, Len(@) - 1),
                            !.rets = Append(@, [path |-> path,
                                                html |-> nested.html,
                                                entry |-> entry,
                                                stack |-> stack_remove(
                                                    nested.w.stack, path)])]]
        \* lines 202-214
        load(slot, path, new_args, ws) ==
            returned(slot,
                     process_content(
                         ExtractBody(read(path)), path, new_args,
                         [ws EXCEPT
                             !.loads = Append(@, path),
                             !.stack = stack_add(@, path),
                             !.chain = Append(@, path),
                             !.calls = Append(@, [path |-> path,
                                                  args |-> new_args,
                                                  attrs |-> match.attrs,
                                                  caller |-> args,
                                                  stack |-> ws.stack,
                                                  chain |-> ws.chain])]),
                     path, ws.stack)
        \* lines 191-199
        found(slot, path, ws) ==
            IF ~isfile(path)
            THEN not_found(match, label, ws)
            ELSE load(slot, path, new_args_of(match.attrs, args), ws)
        \* lines 185-189
        located(slot, path) ==
            IF path \in slot.w.stack THEN cycle_found(match, label, slot.w)
            ELSE IF ~in_templates_dir(path)
            THEN [nodes |-> <<>>, w |-> Raise(slot.w, "InvalidPath", label)]
            ELSE found(slot, path, [slot.w EXCEPT !.stats = Append(@, path)])
        \* lines 178-183
        named(slot) ==
            IF slot.w.err # NoError THEN [nodes |-> <<>>, w |-> slot.w]
            ELSE IF ~has_name
            THEN [nodes |-> <<>>,
                  w |-> Raise(slot.w, "MissingFragmentName", label)]
            ELSE located(slot, resolve(template_name))
    IN named(process_content(Serialize(match.kids), label,
                             slot_args(args, match.attrs),
                             Recursing(w, "slot", <<match>>, match.kids)))

\* pass 3 (lines 172-233)
TempPass(nodes, label, args, w) ==
    IF nodes = <<>> \/ w.err # NoError THEN [nodes |-> <<>>, w |-> w]
    ELSE LET n == Head(nodes)
             \* the later elements of the list inside a replaced n
             replaced(e) ==
                 [nodes |-> e.nodes, w |-> TempPass(n.kids, label, args, e.w).w]
             kept(k) == [nodes |-> <<[n EXCEPT !.kids = k.nodes]>>, w |-> k.w]
             rest(h) == Then(h, TempPass(Tail(nodes), label, args, h.w))
         IN rest(IF ~IsEl(n) THEN [nodes |-> <<n>>, w |-> w]
                 ELSE IF n.tag = "x-temp"
                 THEN replaced(temp_element(n, label, args, w))
                 ELSE kept(TempPass(n.kids, label, args, w)))

\* the four passes over one document, in the order of the code
process_content(current_content, label, args, w) ==
    LET pass2(p) == IfPass(p.nodes, label, args, p.w)
        pass3(p) == TempPass(p.nodes, label, args, p.w)
        pass4(p) == IF p.w.err # NoError THEN [html |-> <<>>, w |-> p.w]
                    ELSE [html |-> Substitute(Serialize(p.nodes), args),
                          w |-> p.w]
    IN pass4(pass3(pass2(ForPass(Parse(current_content), label, args, w))))

(***************************************************************************)
(* The main documents compiled.  A document is named by a record: doc, and *)
(* for the families loop, cond and ph the index k of the argument passed.  *)
(***************************************************************************)
MaxItems == 3

Main(kids) == <<El("xiv", Attr("type", <<"main">>), kids)>>

IncWith(name, attrs, kids) ==
    El("x-temp", Attr("x-name", <<name>>) @@ attrs, kids)

Fruit == <<"Apple", "Banana", "Cherry", "Date", "Elder", "Fig">>

\* the encoded list of the first k items
JsonList(k) == <<"[">> \o SubSeq(Fruit, 1, k) \o <<"]">>

\* the values passed as t-show
CondValues ==
    << <<"true">>, <<"false">>, <<"False">>, <<"FALSE">>, <<"0">>, <<>>,
       <<"1">>, <<"no">>, <<"0", "0">>, <<"TRUE">> >>

\* the values passed as t-title
PhValues ==
    << <<"Alice">>, <<"<", "b", ">">>, <<"Tom", "&", "Jerry">>,
       <<"\"", "q", "'">>, <<>> >>

SimpleDocs ==
    {"plain", "card", "carddefault", "twocards", "nomarker",
     "cyc3", "cyc2", "self", "slotcyc", "cycalias", "cycdeep",
     "traversal", "sibling", "absolute", "deeptraversal", "outandin",
     "dotcard", "bad", "cardthenbad", "notfound", "isdir", "noname",
     "emptyname", "nonameslot", "maybefail", "maybeok",
     "slot", "emptyslot", "slotnested", "isolation",
     "loopabsent", "loopbadjson", "loopscalar", "badexpr",
     "users", "nestif",
     "loopmarkup",
     "plainattr", "mainif", "mainifnot", "mainfor",
     "ifdesc", "guardon", "guardbetween",
     "tagslist", "tagsdict", "flags",
     "shadow",
     "itemtoken", "relay",
     "nestempty", "nestonce", "nestbad"}

Doc(d) == [doc |-> d, k |-> 0]

MainIds ==
    {Doc(d) : d \in SimpleDocs}
    \cup {[doc |-> "loop", k |-> k] : k \in 0..MaxItems}
    \cup {[doc |-> "cond", k |-> k] : k \in 0..Len(CondValues)}
    \cup {[doc |-> "ph", k |-> k] : k \in 0..Len(PhValues)}

MissingMain == Doc("missing")

Title == Attr("t-title", <<"My", "Card">>)

\* the content of the main file
MainSource(id) ==
    LET d == id.doc IN
    CASE d = "plain" ->
            Main(<<El("h1", NoAttrs, <<Tx(<<"Hello">>)>>),
                   El("p", NoAttrs, <<PhDef("name", "Guest")>>)>>)
      [] d = "card" -> Main(<<IncWith("card", Title, <<>>)>>)
      [] d = "carddefault" -> Main(<<Inc("card")>>)
      [] d = "twocards" ->
            Main(<<IncWith("card", Title, <<>>), Inc("card")>>)
      [] d = "nomarker" -> Main(<<IncWith("nomarker", Title, <<>>)>>)
      [] d = "cyc3" -> Main(<<Inc("a")>>)
      [] d = "cyc2" -> Main(<<Inc("p")>>)
      [] d = "self" -> Main(<<Inc("self")>>)
      [] d = "slotcyc" -> Main(<<Inc("slotcyc")>>)
      [] d = "cycalias" -> Main(<<Inc("sub/../b")>>)
      [] d = "cycdeep" -> Main(<<Inc("d")>>)
      [] d = "traversal" -> Main(<<Inc("../secret")>>)
      [] d = "sibling" -> Main(<<Inc("../t2/a")>>)
      [] d = "absolute" -> Main(<<Inc("/r/secret")>>)
      [] d = "deeptraversal" -> Main(<<Inc("evil")>>)
      [] d = "outandin" -> Main(<<IncWith("../t/card", Title, <<>>)>>)
      [] d = "dotcard" -> Main(<<IncWith("./card", Title, <<>>)>>)
      [] d = "bad" -> Main(<<Inc("bad")>>)
      [] d = "cardthenbad" ->
            Main(<<IncWith("card", Title, <<>>), Inc("bad")>>)
      [] d = "notfound" -> Main(<<Inc("nofile")>>)
      [] d = "isdir" -> Main(<<Inc("dir")>>)
      [] d = "noname" -> Main(<<El("x-temp", NoAttrs, <<>>)>>)
      [] d = "emptyname" ->
            Main(<<El("x-temp", Attr("x-name", <<>>), <<>>)>>)
      [] d = "nonameslot" ->
            Main(<<El("x-temp", NoAttrs, <<Inc("nofile")>>)>>)
      [] d = "maybefail" ->
            Main(<<IncWith("maybe", Attr("t-show", <<"true">>), <<>>)>>)
      [] d = "maybeok" -> Main(<<Inc("maybe")>>)
      [] d = "slot" ->
            Main(<<IncWith("wrap", NoAttrs,
                           <<El("p", NoAttrs, <<Tx(<<"S">>)>>)>>)>>)
      [] d = "emptyslot" -> Main(<<Inc("box")>>)
      [] d = "slotnested" ->
            Main(<<IncWith("wrap", NoAttrs,
                           <<IncWith("card", Title, <<>>)>>)>>)
      [] d = "isolation" ->
            Main(<<IncWith("outer",
                           Attr("t-secret", <<"LEAK">>)
                           @@ Attr("t-items", <<"[", "one", "two", "]">>),
                           <<>>)>>)
      [] d = "loop" ->
            Main(<<IncWith("loop", Attr("t-items", JsonList(id.k)), <<>>)>>)
      [] d = "loopabsent" -> Main(<<Inc("loop")>>)
      [] d = "loopbadjson" ->
            Main(<<IncWith("loop", Attr("t-items", <<"Hello">>), <<>>)>>)
      [] d = "loopscalar" ->
            Main(<<IncWith("loop", Attr("t-items", <<"30">>), <<>>)>>)
      [] d = "badexpr" -> Main(<<Inc("badloop")>>)
      [] d = "cond" ->
            Main(<<IncWith("cond",
                           IF id.k = 0 THEN NoAttrs
                           ELSE Attr("t-show", CondValues[id.k]),
                           <<>>)>>)
      [] d = "users" ->
            Main(<<IncWith("users",
                           Attr("t-users", <<"[", "{alice}", "{bob}", "]">>),
                           <<>>)>>)
      [] d = "nestif" -> Main(<<Inc("nestif")>>)
      [] d = "ph" ->
            Main(<<IncWith("ph",
                           IF id.k = 0 THEN NoAttrs
                           ELSE Attr("t-title", PhValues[id.k]),
                           <<>>)>>)
      [] d = "loopmarkup" ->
            Main(<<IncWith("loop",
                           Attr("t-items", <<"[", "<b>", "Apple", "]">>),
                           <<>>)>>)
      [] d = "plainattr" ->
            Main(<<El("div",
                      Attr("id", <<"top">>)
                      @@ Attr("title", <<"{{", "t", "|", "Tip", "}}">>),
                      <<Tx(<<"a", "&amp;", "b">>),
                        El("span", NoAttrs, <<Ph("missing")>>)>>)>>)
      [] d = "mainif" ->
            Main(<<El("p", Attr("x-if", <<"flag">>), <<Tx(<<"hidden">>)>>),
                   El("p", Attr("class", <<"keep">>), <<Tx(<<"kept">>)>>)>>)
      [] d = "mainifnot" ->
            Main(<<El("p",
                      Attr("x-if", <<"not", "flag">>) @@ Attr("class", <<"c">>),
                      <<Tx(<<"shown">>)>>)>>)
      [] d = "mainfor" ->
            Main(<<El("p", NoAttrs, <<Tx(<<"Header">>)>>),
                   El("li", Attr("x-for", <<"item", "in", "items">>),
                      <<Ph("item")>>),
                   El("p", Attr("class", <<"keep">>), <<Tx(<<"Footer">>)>>)>>)
      [] d = "ifdesc" ->
            Main(<<El("div", Attr("x-if", <<"flag">>), <<Inc("nofile")>>),
                   Tx(<<"G">>)>>)
      [] d = "guardon" ->
            Main(<<IncWith("guardon", Attr("t-items", JsonList(2)), <<>>)>>)
      [] d = "guardbetween" ->
            Main(<<IncWith("guardbetween", Attr("t-items", JsonList(2)),
                           <<>>)>>)
      [] d = "tagslist" ->
            Main(<<IncWith("tags", Attr("t-users", <<"[", "{alice}", "]">>),
                           <<>>)>>)
      [] d = "tagsdict" ->
            Main(<<IncWith("tags",
                           Attr("t-users", <<"[", "{alice}", "{bob}", "]">>),
                           <<>>)>>)
      [] d = "flags" ->
            Main(<<IncWith("flags", Attr("t-users", <<"[", "{alice}", "]">>),
                           <<>>)>>)
      [] d = "shadow" ->
            Main(<<IncWith("shadow",
                           Attr("t-item", <<"outer">>)
                           @@ Attr("t-items", JsonList(2))
                           @@ Attr("t-title", <<"T">>),
                           <<>>)>>)
      [] d = "itemtoken" ->
            Main(<<IncWith("loop",
                           Attr("t-items", <<"[", "{{secret}}", "]">>)
                           @@ Attr("t-secret", <<"S3">>),
                           <<>>)>>)
      [] d = "relay" ->
            Main(<<IncWith("relay", Attr("t-secret", <<"S3">>), <<>>)>>)
      [] d = "nestempty" ->
            Main(<<IncWith("nestloop", Attr("t-items", <<"[", "x", "]">>),
                           <<>>)>>)
      [] d = "nestonce" ->
            Main(<<IncWith("nestloop",
                           Attr("t-items", <<"[", "x", "]">>)
                           @@ Attr("t-users", <<"[", "{alice}", "]">>),
                           <<>>)>>)
      [] d = "nestbad" -> Main(<<Inc("nestbad")>>)
      [] OTHER -> <<>>

(***************************************************************************)
(* XivCompiler.compile                                                     *)
(***************************************************************************)
\* lines 101-106: the runtime script is appended to the first
\* <xiv type="main"> and that tag is unwrapped
RECURSIVE InjectRuntime(_)
InjectRuntime(nodes) ==
    IF nodes = <<>> THEN <<>>
    ELSE LET n == Head(nodes) IN
         IF IsEl(n) /\ n.tag = "xiv" /\ "type" \in DOMAIN n.attrs
                    /\ n.attrs["type"] = <<"main">>
         THEN n.kids \o <<El("script", NoAttrs, <<Tx(<<"runtime">>)>>)>>
                     \o Tail(nodes)
         ELSE <<n>> \o InjectRuntime(Tail(nodes))

reset_stack_kept(stack) == stack

\* line 65: self._visited_templates_stack = set()
reset_stack(stack) == {}

\* compile(main_file_path, templates_dir) on an instance whose stack is
\* stack: the run's final world and the string returned (returned is FALSE
\* when an exception left compile)
compile(id, stack, library) ==
    LET w0 == [err |-> NoError, at |-> <<>>, raised |-> <<>>,
               start |-> reset_stack(stack), stack |-> reset_stack(stack),
               stats |-> <<>>, loads |-> <<>>, calls |-> <<>>, rets |-> <<>>,
               chain |-> <<>>, recs |-> <<>>, lib |-> library]
        finish(r) ==
            IF r.w.err # NoError
            THEN [w |-> r.w, returned |-> FALSE, out |-> <<>>]
            ELSE [w |-> r.w, returned |-> TRUE,
                  out |-> Serialize(InjectRuntime(Parse(r.html)))]
    IN IF id \notin MainIds
       THEN [w |-> Raise(w0, "InvalidInput", MainLabel),
             returned |-> FALSE, out |-> <<>>]
       ELSE finish(process_content(MainSource(id), MainLabel, EmptyArgs, w0))

(***************************************************************************)
(* The state: one compiler instance, used for a sequence of compilations.  *)
(***************************************************************************)
VARIABLES
    visited,    \* self._visited_templates_stack
    lib,        \* how the tree library treats a destroyed element
    n,          \* the number of compile calls made on the instance
    before,     \* the stack as the last call found it
    main,       \* the main file of the last call
    result      \* what the last call did and returned

vars == <<visited, lib, n, before, main, result>>

NoResult ==
    [w |-> [err |-> NoError, at |-> <<>>, raised |-> <<>>, start |-> {},
            stack |-> {}, stats |-> <<>>, loads |-> <<>>, calls |-> <<>>,
            rets |-> <<>>, chain |-> <<>>, recs |-> <<>>, lib |-> ""],
     returned |-> FALSE, out |-> <<>>]

\* XivCompiler.__init__
Init ==
    /\ visited = {}
    /\ lib \in {"raise", "skip"}
    /\ n = 0
    /\ before = {}
    /\ main = Doc("none")
    /\ result = NoResult

\* one call of compile on the instance
Compile(id) ==
    /\ n < MaxCompiles
    /\ LET call(r) == result' = r /\ visited' = r.w.stack
       IN call(compile(id, visited, lib))
    /\ before' = visited
    /\ main' = id
    /\ n' = n + 1
    /\ UNCHANGED lib

Next == \E id \in MainIds \cup {MissingMain} : Compile(id)

Spec == Init /\ [][Next]_vars

(***************************************************************************)
(* Properties of the compiler.  The vocabulary they are stated in: what    *)
(* the last call did, the trees expected as output, and the inclusion      *)
(* graph of the template store.                                            *)
(***************************************************************************)
\* compile has been called on the instance
Ran == n >= 1

\* the last call raised e and returned nothing
Failed(e) == Ran /\ result.w.err = e /\ ~result.returned /\ result.out = <<>>

\* the last call compiled the document d and returned
Returned(d) == Ran /\ main = Doc(d) /\ result.returned

\* the script element compile appends
Script == El("script", NoAttrs, <<Tx(<<"runtime">>)>>)

\* the wrapper an expanded inclusion of the fragment name leaves
Wrapped(name, kids) == El("div", Attr("class", <<"x-", name>>), kids)

\* an element without attributes holding one run of text
Text(tag, toks) == El(tag, NoAttrs, <<Tx(toks)>>)

\* the tree holds a subtree equal to node
RECURSIVE Occurs(_, _)
Occurs(nodes, node) ==
    /\ nodes # <<>>
    /\ \/ Head(nodes) = node
       \/ Occurs(Head(nodes).kids, node)
       \/ Occurs(Tail(nodes), node)

\* the names of the inclusion elements of a tree that no conditional and
\* no iteration guards (slot content included)
RECURSIVE IncludedNames(_)
IncludedNames(nodes) ==
    IF nodes = <<>> THEN {}
    ELSE LET e == Head(nodes) IN
         (IF ~IsEl(e) \/ HasAttr(e, "x-if") \/ HasAttr(e, "x-for") THEN {}
          ELSE (IF e.tag = "x-temp" /\ HasAttr(e, "x-name")
                   /\ e.attrs["x-name"] # <<>>
                THEN {e.attrs["x-name"][1]} ELSE {})
               \cup IncludedNames(e.kids))
         \cup IncludedNames(Tail(nodes))

IncludedPaths(nodes) == {resolve(name) : name \in IncludedNames(nodes)}

\* the body of the fragment stored at a path
BodyAt(path) ==
    IF path \in DOMAIN Store /\ Store[path].kind = "file"
    THEN ExtractBody(Store[path].raw) ELSE <<>>

RECURSIVE ReachIn(_, _)
ReachIn(paths, k) ==
    IF k = 0 THEN paths
    ELSE ReachIn(paths \cup UNION {IncludedPaths(BodyAt(p)) : p \in paths},
                 k - 1)

\* the paths a tree includes, directly or through fragments
Reachable(nodes) == ReachIn(IncludedPaths(nodes), Cardinality(DOMAIN Store))

\* the document reaches a fragment that includes itself, directly or
\* through other fragments
Cyclic(id) ==
    \E p \in Reachable(MainSource(id)) : p \in Reachable(BodyAt(p))

\* the path is the template root or lies below it
UnderRoot(path) ==
    \/ path = TemplatesDir
    \/ Len(path) > Len(TemplatesDir)
       /\ SubSeq(path, 1, Len(TemplatesDir)) = TemplatesDir

\* the document reaches an inclusion whose resolved path leaves the root
Escaping(id) == \E p \in Reachable(MainSource(id)) : ~UnderRoot(p)

\* C1: a document that reaches a fragment including itself, directly or
\* through a chain of inclusions of any length (slot content included),
\* makes compile fail with CircularReference and return no output; and no
\* fragment body is ever entered while its own path is on the stack
C1_CycleFails ==
    /\ (Ran /\ Cyclic(main)) => Failed("CircularReference")
    /\ \A i \in DOMAIN result.w.calls :
          result.w.calls[i].path \notin result.w.calls[i].stack

\* a cycle of three fragments was followed to the inclusion that closes it
C1_CycleOfThree ==
    /\ Failed("CircularReference")
    /\ main = Doc("cyc3")
    /\ Len(result.w.calls) = 3
    /\ result.w.at = InRoot("c.xiv")

\* C2: an inclusion whose name, joined with the root and normalized, is
\* neither the root nor below root + separator makes compile fail with
\* InvalidPath, and every file tested or opened as a fragment lies within
\* the root
C2_OutsideRootRejected ==
    /\ (Ran /\ Escaping(main)) => Failed("InvalidPath")
    /\ \A i \in DOMAIN result.w.loads : UnderRoot(result.w.loads[i])
    /\ \A i \in DOMAIN result.w.stats : UnderRoot(result.w.stats[i])

\* a fragment inside the root asked for ../secret and nothing but that
\* fragment was opened
C2_NestedTraversal ==
    /\ Failed("InvalidPath")
    /\ main = Doc("deeptraversal")
    /\ result.w.loads = <<InRoot("evil.xiv")>>
    /\ result.w.at = InRoot("evil.xiv")

\* what the fragment iso.xiv renders to when nothing reaches it: both
\* placeholders fall back to their defaults, its conditional on secret is
\* removed and its iteration over items yields nothing
IsolatedBody == <<Text("i", <<"hidden">>), Text("i", <<"noitem">>)>>

\* C3: the context a fragment body is processed with holds exactly the
\* t- attributes of the inclusion element, prefix stripped, as text; a
\* variable of the caller (a loop variable included) that is not passed is
\* absent for the placeholders, conditionals and iterations of the body
C3_ArgumentIsolation ==
    /\ \A i \in DOMAIN result.w.calls :
          LET c == result.w.calls[i]
              passed == DOMAIN c.attrs \cap ArgAttrs
          IN /\ \A a \in passed : /\ ArgKey(a) \in DOMAIN c.args
                                  /\ c.args[ArgKey(a)] = VStr(c.attrs[a])
             /\ \A k \in DOMAIN c.args : \E a \in passed : ArgKey(a) = k
    /\ \A i \in DOMAIN result.w.rets :
          result.w.rets[i].path = InRoot("iso.xiv")
              => result.w.rets[i].html = IsolatedBody

\* a fragment was included, without arguments, from inside a loop of a
\* caller that has secret and the loop variable item bound
C3_CallerHadBindings ==
    /\ Returned("isolation")
    /\ \E i \in DOMAIN result.w.calls :
          /\ result.w.calls[i].path = InRoot("iso.xiv")
          /\ {"secret", "item", "items"} \subseteq DOMAIN result.w.calls[i].caller
          /\ DOMAIN result.w.calls[i].args = {}
    /\ \E i \in DOMAIN result.w.rets : result.w.rets[i].path = InRoot("iso.xiv")

\* the error each failing document is to end in
FailingDocs ==
    [cyc3 |-> "CircularReference", slotcyc |-> "CircularReference",
     traversal |-> "InvalidPath", deeptraversal |-> "InvalidPath",
     notfound |-> "FragmentNotFound", isdir |-> "FragmentNotFound",
     bad |-> "FragmentNotFound", cardthenbad |-> "FragmentNotFound",
     maybefail |-> "FragmentNotFound", noname |-> "MissingFragmentName",
     emptyname |-> "MissingFragmentName",
     badexpr |-> "InvalidLoopExpression",
     loopbadjson |-> "InvalidIterationSource",
     loopscalar |-> "InvalidIterationSource"]

\* C4: an error raised at any depth ends the compilation: a run in which
\* an error was raised returns nothing, a run that returns left no inclusion
\* element in its output, and each failing document ends in its error
C4_ErrorsAbort ==
    /\ (Ran /\ result.w.raised # <<>>) => Failed(result.w.raised[1])
    /\ (Ran /\ result.returned) =>
          /\ result.w.raised = <<>>
          /\ ~ContainsTag(result.out, "x-temp")
    /\ (Ran /\ main.doc \in DOMAIN FailingDocs) => Failed(FailingDocs[main.doc])

\* a fragment nested one level down failed after an earlier inclusion of the
\* same document had been expanded
C4_NestedFailureAfterWork ==
    /\ Failed("FragmentNotFound")
    /\ main = Doc("cardthenbad")
    /\ result.w.at = InRoot("bad.xiv")
    /\ result.w.loads = <<InRoot("card.xiv"), InRoot("bad.xiv")>>
    /\ Len(result.w.rets) = 1

\* C5: the entry pushed for a fragment is removed however the processing of
\* its body ends: after a compile that failed the stack holds no entry
C5_StackEmptyAfterFailure == (Ran /\ ~result.returned) => visited = {}

\* C6: every compile starts with an empty stack, whatever the earlier calls
\* on the instance left, and does and returns what the same compilation does
\* on a fresh instance
C6_SequentialReuse ==
    Ran => /\ result.w.start = {}
           /\ result = compile(main, {}, lib)

\* a compilation succeeded, expanding a fragment whose path an earlier,
\* failed call had left on the stack
C6_ReusedAfterFailure ==
    /\ n >= 2
    /\ result.returned
    /\ \E i \in DOMAIN result.w.calls : result.w.calls[i].path \in before

\* the output for the fragment loop.xiv given the first k items: the
\* heading, one li per item in the order of the list, the footer
LoopOutput(k) ==
    <<Wrapped("loop",
              <<Text("p", <<"Header">>)>>
              \o [i \in 1..k |-> Text("li", <<Fruit[i]>>)]
              \o <<Text("p", <<"Footer">>)>>),
      Script>>

\* C7: an iteration over a list of N items replaces its element by N
\* siblings in the order of the list, the k-th produced with the variable
\* bound to the k-th item; over an absent path or an empty list it produces
\* none; the siblings around it stay as they were and in their order
C7_IterationInOrder ==
    /\ (Ran /\ main.doc = "loop") =>
          result.returned /\ result.out = LoopOutput(main.k)
    /\ (Ran /\ main = Doc("loopabsent")) =>
          result.returned /\ result.out = LoopOutput(0)

\* the longest list of the model was iterated
C7_LongestList ==
    /\ Ran
    /\ main = [doc |-> "loop", k |-> MaxItems]
    /\ result.returned
    /\ Occurs(result.out, Text("li", <<Fruit[MaxItems]>>))

\* the truthiness rule on a textual value: false when its lowercased form
\* is "false", "0" or the empty string
TextIsTrue(v) ==
    v \notin {<<>>, <<"0">>, <<"false">>, <<"False">>, <<"FALSE">>}

\* the value bound to show in the k-th document of the family cond is
\* true by the rule (k = 0 binds nothing)
ShowIsTrue(k) == k # 0 /\ TextIsTrue(CondValues[k])

\* the output for cond.xiv: a div conditional on "show" (with a span in
\* it) and a p conditional on "not show"
CondOutput(k) ==
    <<Wrapped("cond",
              IF ShowIsTrue(k)
              THEN <<El("div", NoAttrs,
                        <<Tx(<<"shown">>), Text("span", <<"inner">>)>>)>>
              ELSE <<Text("p", <<"notshown">>)>>),
      Script>>

\* the output for users.xiv: per user a q conditional on the boolean
\* user.active and an s conditional on its negation
UsersOutput ==
    <<Wrapped("users",
              <<El("div", NoAttrs,
                   <<Text("p", <<"Alice">>), Text("q", <<"Active">>)>>),
                El("div", NoAttrs,
                   <<Text("p", <<"Bob">>), Text("s", <<"Inactive">>)>>)>>),
      Script>>

EscapedPhValues ==
    << <<"Alice">>, <<"&lt;", "b", "&gt;">>, <<"Tom", "&amp;", "Jerry">>,
       <<"&quot;", "q", "&#x27;">>, <<>> >>

\* what the body of ph.xiv renders to: {{title}}, {{title|Guest}},
\* {{title.x|deep}}, href="{{title}}" and {{title|R & D}}.  A default is
\* read from the serialized text (line 236), where its & already stands as
\* &amp;, and is escaped from there
PhBody(k) ==
    IF k = 0
    THEN <<Text("h2", <<>>), Text("p", <<"Guest">>), Text("i", <<"deep">>),
           El("a", Attr("href", <<>>), <<>>),
           Text("em", <<"R", "&amp;amp;", "D">>)>>
    ELSE <<Text("h2", EscapedPhValues[k]), Text("p", EscapedPhValues[k]),
           Text("i", <<"deep">>),
           El("a", Attr("href", EscapedPhValues[k]), <<>>),
           Text("em", EscapedPhValues[k])>>

\* C9: a placeholder is replaced by the escaped text of the value its path
\* has in the context of the level, and by the escaped default (the empty
\* string without one) only when the path has none; a dotted path has none
\* when a value on the way is no mapping or a key is missing
C9_PlaceholderSubstitution ==
    /\ (Ran /\ main.doc = "ph") =>
          /\ result.returned
          /\ Len(result.w.rets) = 1
          /\ result.w.rets[1].html = PhBody(main.k)
    /\ (Ran /\ main = Doc("plain")) =>
          /\ result.returned
          /\ result.out = <<Text("h1", <<"Hello">>), Text("p", <<"Guest">>),
                            Script>>

\* a value holding markup characters was substituted where a default stood
C9_MarkupValue ==
    /\ Ran
    /\ main.doc = "ph"
    /\ main.k >= 1
    /\ PhValues[main.k] = <<"<", "b", ">">>
    /\ result.returned
    /\ Occurs(result.w.rets[1].html, Text("p", <<"&lt;", "b", "&gt;">>))

\* the wrapper fragment wrap.xiv around the given slot content
WrapOutput(contents) ==
    Wrapped("wrap",
            <<El("div", Attr("class", <<"wrapper">>),
                 <<Tx(<<"W", "wrapdefault">>)>> \o contents)>>)

\* C10: the children of an inclusion element are processed in the context
\* of the caller and replace the slot placeholder of the fragment; without
\* children the placeholder is removed, its container is left empty and no
\* error is raised
C10_SlotInjection ==
    /\ (Ran /\ main = Doc("slot")) =>
          /\ result.returned
          /\ result.out = <<WrapOutput(<<Text("p", <<"S">>)>>), Script>>
    /\ (Ran /\ main = Doc("emptyslot")) =>
          /\ result.returned
          /\ result.w.raised = <<>>
          /\ result.out = <<Wrapped("box", <<El("div", NoAttrs, <<>>)>>),
                            Script>>
    /\ (Ran /\ main = Doc("isolation")) =>
          /\ result.returned
          /\ Occurs(result.out, WrapOutput(<<Text("em", <<"LEAK">>)>>))
    /\ (Ran /\ result.returned) => ~ContainsTag(result.out, "x-slot")

\* slot content naming secret was passed to a fragment that is not passed
\* secret, by a caller that has it bound
C10_SlotInCallerScope ==
    /\ Returned("isolation")
    /\ \E i \in DOMAIN result.w.calls :
          /\ result.w.calls[i].path = InRoot("wrap.xiv")
          /\ "secret" \in DOMAIN result.w.calls[i].caller
          /\ "secret" \notin DOMAIN result.w.calls[i].args
    /\ Occurs(result.out, Text("em", <<"LEAK">>))

\* the elements of a tree with their attribute names, the text left out
RECURSIVE Skeleton(_)
Skeleton(nodes) ==
    IF nodes = <<>> THEN <<>>
    ELSE LET e == Head(nodes) IN
         (IF IsEl(e)
          THEN <<[tag |-> e.tag, attrs |-> DOMAIN e.attrs,
                  kids |-> Skeleton(e.kids)]>>
          ELSE <<>>)
         \o Skeleton(Tail(nodes))

\* the elements compile returns for ph.xiv whatever the title passed: the
\* wrapper with h2, p, i, a[href], em, and the script
PhSkeleton ==
    <<[tag |-> "div", attrs |-> {"class"},
       kids |-> <<[tag |-> "h2", attrs |-> {}, kids |-> <<>>],
                  [tag |-> "p", attrs |-> {}, kids |-> <<>>],
                  [tag |-> "i", attrs |-> {}, kids |-> <<>>],
                  [tag |-> "a", attrs |-> {"href"}, kids |-> <<>>],
                  [tag |-> "em", attrs |-> {}, kids |-> <<>>]>>],
      [tag |-> "script", attrs |-> {}, kids |-> <<>>]>>

\* the values of PhValues as text of the string compile returns: < > & as
\* entities
SerializedPhValues ==
    << <<"Alice">>, <<"&lt;", "b", "&gt;">>, <<"Tom", "&amp;", "Jerry">>,
       <<"\"", "q", "'">>, <<>> >>

\* C11: a value or default holding < > & or quotes adds no element and no
\* attribute to the compiled tree: whatever the value, the tree has the
\* elements and attributes it has for a plain value, and the value stands
\* in it as escaped text, also after the levels above have parsed and
\* serialized the substituted text again
C11_NoMarkupInjection ==
    /\ (Ran /\ main.doc = "ph") =>
          /\ result.returned
          /\ Skeleton(result.out) = PhSkeleton
          /\ (main.k >= 1 /\ PhValues[main.k] # <<>>) =>
                /\ Occurs(result.out, Text("h2", SerializedPhValues[main.k]))
                /\ Occurs(result.out,
                          El("a", Attr("href", SerializedPhValues[main.k]),
                             <<>>))
    /\ (Ran /\ main = Doc("loopmarkup")) =>
          /\ result.returned
          /\ result.out = <<Wrapped("loop",
                                    <<Text("p", <<"Header">>),
                                      Text("li", <<"&lt;", "b", "&gt;">>),
                                      Text("li", <<"Apple">>),
                                      Text("p", <<"Footer">>)>>),
                            Script>>

\* a value holding < and > was substituted into text and into an attribute
C11_MarkupValuePassed ==
    /\ Ran
    /\ main.doc = "ph"
    /\ main.k >= 1
    /\ PhValues[main.k] = <<"<", "b", ">">>
    /\ result.returned
    /\ \E i \in DOMAIN result.w.calls :
          result.w.calls[i].args["title"] = VStr(<<"<", "b", ">">>)
    /\ ~ContainsTag(result.out, "b")

\* the source holds no inclusion element
NoInclusion(source) == ~ContainsTag(source, "x-temp")

\* the source holds no directive at all
NoDirective(source) ==
    /\ NoInclusion(source)
    /\ ~ContainsAttr(source, "x-for")
    /\ ~ContainsAttr(source, "x-if")

\* what compile returns when only the placeholders of the main document
\* are substituted (in the empty context) and the script is appended
SubstitutedOnly(id) ==
    Serialize(InjectRuntime(Parse(
        Substitute(Serialize(Parse(MainSource(id))), EmptyArgs))))

Range(s) == {s[i] : i \in DOMAIN s}

\* documents whose only reference to the missing fragment nofile is on or
\* below an element whose condition is false: on the inclusion element
\* itself, on an ancestor, on an element that also iterates, and on an
\* ancestor of an iterating element
GuardedDocs ==
    {Doc("maybeok"), Doc("ifdesc"), Doc("guardon"), Doc("guardbetween")}

\* C13: an inclusion element that is, or lies below, an element whose
\* condition is false is never resolved or read and raises nothing, also
\* with an iteration on or between the conditional element and the
\* inclusion
C13_FalseConditionNeverLoads ==
    (Ran /\ main \in GuardedDocs) =>
        /\ result.returned
        /\ result.w.raised = <<>>
        /\ resolve("nofile") \notin Range(result.w.stats)
        /\ resolve("nofile") \notin Range(result.w.loads)

\* what a user of tags.xiv or flags.xiv renders to, given the elements its
\* inner iteration produces
UserOutput(name, inner) ==
    El("div", NoAttrs, <<Text("p", <<name>>)>> \o inner)

\* C14: an iteration whose collection is neither text nor a list (the
\* mapping user.tags of the second user, the boolean user.active) produces
\* no element and raises nothing; only text that does not decode raises
\* InvalidIterationSource
C14_OtherSourcesAreEmpty ==
    /\ (Ran /\ main = Doc("tagslist")) =>
          /\ result.returned
          /\ result.out =
                <<Wrapped("tags",
                          <<UserOutput("Alice", <<Text("b", <<"x">>),
                                                  Text("b", <<"y">>)>>)>>),
                  Script>>
    /\ (Ran /\ main = Doc("tagsdict")) =>
          /\ result.returned
          /\ result.w.raised = <<>>
          /\ result.out =
                <<Wrapped("tags",
                          <<UserOutput("Alice", <<Text("b", <<"x">>),
                                                  Text("b", <<"y">>)>>),
                            UserOutput("Bob", <<>>)>>),
                  Script>>
    /\ (Ran /\ main = Doc("flags")) =>
          /\ result.returned
          /\ result.w.raised = <<>>
          /\ result.out = <<Wrapped("flags", <<UserOutput("Alice", <<>>)>>),
                            Script>>
    /\ (Ran /\ main = Doc("loopbadjson")) => Failed("InvalidIterationSource")

\* how often x occurs in a sequence
RECURSIVE Count(_, _)
Count(s, x) ==
    IF s = <<>> THEN 0
    ELSE (IF Head(s) = x THEN 1 ELSE 0) + Count(Tail(s), x)

\* C15: in one compilation every rendered inclusion element loads its
\* fragment file exactly once: two references to one fragment load it
\* twice (nothing is cached), and one reference loads it once, also when
\* the inclusion element stands in the slot content of another
C15_OneLoadPerReference ==
    /\ (Ran /\ main = Doc("twocards")) =>
          /\ result.returned
          /\ result.w.loads = <<InRoot("card.xiv"), InRoot("card.xiv")>>
    /\ (Ran /\ main = Doc("slot")) =>
          /\ result.returned
          /\ result.w.loads = <<InRoot("wrap.xiv")>>
    /\ (Ran /\ main = Doc("slotnested")) =>
          /\ result.returned
          /\ Count(result.w.loads, InRoot("wrap.xiv")) = 1
          /\ Count(result.w.loads, InRoot("card.xiv")) = 1

\* the context outer.xiv is processed with in the document isolation
OuterArgs ==
    [secret |-> VStr(<<"LEAK">>), items |-> VStr(<<"[", "one", "two", "]">>)]

\* the contexts of the levels that included the fragment at path, in the
\* order of the inclusions
CallersOf(path) ==
    LET at(c) == c.path = path
        made == SelectSeq(result.w.calls, at)
    IN [i \in DOMAIN made |-> made[i].caller]

\* C16: the k-th iteration of a loop is processed in the enclosing context
\* plus the one binding of the loop variable to the k-th item, which
\* shadows a binding of the same name; the enclosing context is not
\* changed by it: the next iteration and the siblings after the loop see
\* the enclosing bindings as they were
C16_LoopScoping ==
    /\ (Ran /\ main = Doc("shadow")) =>
          /\ result.returned
          /\ result.out =
                <<Wrapped("shadow",
                          <<Text("i", <<"outer">>),
                            El("li", NoAttrs,
                               <<Tx(<<"Apple">>), Text("u", <<"T">>)>>),
                            El("li", NoAttrs,
                               <<Tx(<<"Banana">>), Text("u", <<"T">>)>>),
                            Text("b", <<"outer">>)>>),
                  Script>>
    /\ (Ran /\ main = Doc("isolation")) =>
          /\ result.returned
          /\ CallersOf(InRoot("iso.xiv")) =
                <<("item" :> VStr(<<"one">>)) @@ OuterArgs,
                  ("item" :> VStr(<<"two">>)) @@ OuterArgs>>
          /\ CallersOf(InRoot("wrap.xiv")) = <<OuterArgs>>

\* a loop ran over two items with its variable already bound in the
\* enclosing context
C16_ShadowedVariable ==
    /\ Returned("shadow")
    /\ \E i \in DOMAIN result.w.calls :
          /\ result.w.calls[i].path = InRoot("shadow.xiv")
          /\ result.w.calls[i].args["item"] = VStr(<<"outer">>)
    /\ Occurs(result.out, Tx(<<"Banana">>))

\* the path names a regular file below the template root
ValidatedPath(path) ==
    /\ UnderRoot(path)
    /\ path \in DOMAIN Store
    /\ Store[path].kind = "file"

\* C17: whenever the body of a fragment is entered the stack is exactly the
\* set of the paths of the fragments being expanded on the call chain (the
\* recursions for slot content and loop bodies add nothing), each of them a
\* validated path below the root and none of them twice; when the
\* processing of a body returns the stack is what it was at its entry, and
\* it is empty when compile returns
C17_StackIsCallChain ==
    Ran =>
       /\ \A i \in DOMAIN result.w.calls :
             /\ result.w.calls[i].stack = Range(result.w.calls[i].chain)
             /\ Cardinality(result.w.calls[i].stack)
                   = Len(result.w.calls[i].chain)
             /\ result.w.calls[i].path \notin result.w.calls[i].stack
             /\ \A p \in result.w.calls[i].stack \cup {result.w.calls[i].path} :
                   ValidatedPath(p)
       /\ \A j \in DOMAIN result.w.rets :
             result.w.rets[j].stack = result.w.rets[j].entry
       /\ result.returned =>
             /\ visited = {}
             /\ result.w.chain = <<>>

\* a compilation returned after entering a fragment body two levels down
\* from inside a loop body
C17_NestedExpansionReturned ==
    /\ Returned("isolation")
    /\ \E i \in DOMAIN result.w.calls :
          /\ result.w.calls[i].path = InRoot("iso.xiv")
          /\ result.w.calls[i].chain = <<InRoot("outer.xiv")>>
    /\ Len(result.w.rets) = Len(result.w.calls)

\* the fragment files below the template root
FragmentFiles == {p \in DOMAIN Store : ValidatedPath(p)}

\* the files a fragment body is entered with: those being expanded on the
\* call chain and the one entered
FilesEntered(call) == {normpath(p) : p \in Range(call.chain) \cup {call.path}}

\* C18: compile ends, either returning or raising; the fragments being
\* expanded at any point are distinct files below the root, so the depth
\* of nested expansions never exceeds their number; and each recursion for
\* slot content or a loop body is on an input strictly smaller than what
\* it is taken from (the loop copy is without its iteration directive)
C18_Terminates ==
    Ran =>
       /\ result.returned # (result.w.err # NoError)
       /\ \A i \in DOMAIN result.w.calls :
             /\ FilesEntered(result.w.calls[i]) \subseteq FragmentFiles
             /\ Cardinality(FilesEntered(result.w.calls[i]))
                   = Len(result.w.calls[i].chain) + 1
             /\ Len(result.w.calls[i].chain) + 1 <= Cardinality(FragmentFiles)
       /\ \A j \in DOMAIN result.w.recs :
             result.w.recs[j].to < result.w.recs[j].from

\* the chain d, a, b, c was expanded four deep, each inclusion recursing
\* on its (empty) slot content, before the reference back to a ended the
\* compilation
C18_DeepChainEnded ==
    /\ Ran
    /\ main = Doc("cycdeep")
    /\ ~result.returned
    /\ result.w.err = "CircularReference"
    /\ \E i \in DOMAIN result.w.calls :
          result.w.calls[i].chain
             = <<InRoot("d.xiv"), InRoot("a.xiv"), InRoot("b.xiv")>>
    /\ \E j \in DOMAIN result.w.recs : result.w.recs[j].kind = "slot"

\* some text or attribute value of the tree holds a placeholder token
RECURSIVE HasPlaceholder(_)
HasPlaceholder(nodes) ==
    /\ nodes # <<>>
    /\ \/ "{{" \in Range(Head(nodes).s)
       \/ \E a \in DOMAIN Head(nodes).attrs : "{{" \in Range(Head(nodes).attrs[a])
       \/ HasPlaceholder(Head(nodes).kids)
       \/ HasPlaceholder(Tail(nodes))

\* C19: a placeholder is resolved once, in the scope it stands in: what the
\* processing of a fragment body returns holds no placeholder token, and
\* text that came from a value (a list item or an argument that reads
\* {{secret}}) is not substituted against the context of the enclosing
\* level, so the value of secret there never reaches the output
C19_ResolvedOnce ==
    /\ Ran => \A j \in DOMAIN result.w.rets :
                 ~HasPlaceholder(result.w.rets[j].html)
    /\ (Ran /\ main \in {Doc("itemtoken"), Doc("relay")}) =>
          /\ result.returned
          /\ ~Occurs(result.out, Tx(<<"S3">>))

\* C20: the body of a loop is processed only in an iteration of the loop:
\* over an absent collection nothing of the element is processed (the
\* iteration nested in it is not evaluated, the fragment its body refers
\* to is not loaded, no error comes from it), and with one item the nested
\* iteration is evaluated once, in that iteration, never in the enclosing
\* context without the outer variable
C20_BodyOnlyInIteration ==
    /\ (Ran /\ main = Doc("nestempty")) =>
          /\ result.returned
          /\ result.w.loads = <<InRoot("nestloop.xiv")>>
          /\ result.out = <<Wrapped("nestloop", <<Tx(<<"L">>)>>), Script>>
    /\ (Ran /\ main = Doc("nestbad")) =>
          /\ result.returned
          /\ result.w.raised = <<>>
          /\ result.out = <<Wrapped("nestbad", <<Tx(<<"L">>)>>), Script>>
    /\ (Ran /\ main = Doc("nestonce")) =>
          /\ result.returned
          /\ Count(result.w.loads, InRoot("card.xiv")) = 1
          /\ \A i \in DOMAIN result.w.calls :
                result.w.calls[i].path = InRoot("card.xiv") =>
                    "user" \in DOMAIN result.w.calls[i].caller
====
